---- MODULE Spec2Model ----
(***************************************************************************)
(* AutoMapperBase (src/src/base.ts): the mapping registry, the type        *)
(* identity hash, the per-property dispatcher and the graph mapper.        *)
(*                                                                         *)
(* Strings the code computes with (hashes, registry keys) are sequences of *)
(* character codes, so that concatenation and String.includes are real.   *)
(* Names that are only compared for equality are TLA+ strings.             *)
(***************************************************************************)
EXTENDS Integers, Sequences, FiniteSets, TLC

VARIABLES
  _mappings,      \* this._mappings: <<[key, mapping]>> in key insertion order
  _classNameMap,  \* this._classNameMap: type -> identity hash string
  outcome,        \* what the last operation returned or threw
  trace,          \* the events (hook calls, rules, writes) of the map calls observed
  queue,          \* the promises _mapAsync/_mapArrayAsync returned, oldest first
  created         \* history: pairs createMapping registered since the last reset

vars == <<_mappings, _classNameMap, outcome, trace, queue, created>>

----------------------------------------------------------------------------
(* Bounds *)

\* how many mappings the registry holds at most in the explored runs
MaxMappings == 2
\* how many asynchronous calls are made at most in the explored runs
MaxCalls == 2
\* how many elements the arrays passed to mapArray have at most
MaxElems == 2

----------------------------------------------------------------------------
(* The types (constructors) of the explored programs.  User2 is a second   *)
(* definition with the same name and the same definition text as User (the *)
(* same class declared in another module); User3 is another class named    *)
(* User whose definition text differs; Admin extends User; Array is the    *)
(* constructor of every array.                                             *)

Types == {"User", "User2", "User3", "UserVm", "Admin", "Addr", "AddrVm", "Array"}

\* constructor.name
TypeName == [t \in Types |-> IF t \in {"User2", "User3"} THEN "User" ELSE t]

\* Function.prototype, the prototype of a class that extends nothing
FunctionPrototype == "Function.prototype"

\* what a class extends
Extends == [t \in Types |-> IF t = "Admin" THEN "User" ELSE FunctionPrototype]

\* source.toString(), as character codes
cClass == <<99, 108, 97, 115, 115, 32>>
cUser == <<85, 115, 101, 114>>
cAddr == <<65, 100, 100, 114>>
cAdmin == <<65, 100, 109, 105, 110>>
cVm == <<86, 109>>
cBody == <<123, 125>>
cSpacedBody == <<123, 32, 125>>
cExtends == <<32, 101, 120, 116, 101, 110, 100, 115, 32>>
cFunction == <<102, 117, 110, 99, 116, 105, 111, 110, 32>>
cArray == <<65, 114, 114, 97, 121>>
cNative == <<40, 41, 32, 123, 32, 91, 110, 97, 116, 105, 118, 101, 32, 99, 111, 100, 101, 93, 32, 125>>

TypeText ==
  [t \in Types |->
     CASE t \in {"User", "User2"} -> cClass \o cUser \o cBody
       [] t = "User3" -> cClass \o cUser \o cSpacedBody
       [] t = "UserVm" -> cClass \o cUser \o cVm \o cBody
       [] t = "Admin" -> cClass \o cAdmin \o cExtends \o cUser \o cBody
       [] t = "Addr" -> cClass \o cAddr \o cBody
       [] t = "AddrVm" -> cClass \o cAddr \o cVm \o cBody
       [] t = "Array" -> cFunction \o cArray \o cNative]

----------------------------------------------------------------------------
(* Strings *)

RECURSIVE Digits(_)
Digits(n) == IF n < 10 THEN <<48 + n>> ELSE Append(Digits(n \div 10), 48 + (n % 10))

\* Number.prototype.toString() of a 32-bit integer
\* the digits of -n for n < 0, d being the last one
NegativeDigits(rest, d) == (IF rest = 0 THEN <<>> ELSE Digits(rest)) \o <<48 + d>>

NegativeToString(n, d) == <<45>> \o NegativeDigits(-((n + d) \div 10), d)

NumberToString(n) ==
  IF n >= 0 THEN Digits(n) ELSE NegativeToString(n, (10 - (n % 10)) % 10)

IsSpace(c) == c \in {9, 10, 13, 32}

RECURSIVE TrimLeft(_)
TrimLeft(s) == IF s # <<>> /\ IsSpace(Head(s)) THEN TrimLeft(Tail(s)) ELSE s

RECURSIVE TrimRight(_)
TrimRight(s) ==
  IF s # <<>> /\ IsSpace(s[Len(s)]) THEN TrimRight(SubSeq(s, 1, Len(s) - 1)) ELSE s

\* String.prototype.trim
Trim(s) == TrimRight(TrimLeft(s))

\* String.prototype.includes
Includes(s, part) ==
  \E i \in 0..(Len(s) - Len(part)) : SubSeq(s, i + 1, i + Len(part)) = part

----------------------------------------------------------------------------
(* utils *)

\* _wrapMappingKey: brackets the definition text
_wrapMappingKey(text) == <<95, 95>> \o text \o <<95, 95>>

\* _getMappingKey: the two hashes joined by "->", which no hash contains
_getMappingKey(sourceKey, destinationKey) == sourceKey \o <<45, 62>> \o destinationKey

\* _getProto: the constructor a class extends
_getProto(source) == Extends[source]

----------------------------------------------------------------------------
(* _getHash.  A definition never names a LET twice: what a statement       *)
(* computes once is handed on as an operator argument.                     *)

\* hash = (hash << 5) - hash + c; hash = hash & hash, on a 32-bit word kept
\* as <<high 16 bits, low 16 bits>>
HashCarry(hi, lo) == <<(31 * hi + (lo \div 65536)) % 65536, lo % 65536>>

HashStep(h, c) == HashCarry(h[1], 31 * h[2] + c)

\* what hash & hash leaves: a 32-bit word
Word32 == (0..65535) \X (0..65535)

\* the loop of lines 597-601 over stringify[a..b], entered with hash; the
\* range is walked in two halves, the second entered with the hash the
\* first leaves
RECURSIVE HashLoop(_, _, _, _)
HashLoop(stringify, a, b, hash) ==
  IF a > b \/ hash \notin Word32 THEN hash
  ELSE IF a = b THEN HashStep(hash, stringify[a])
  ELSE HashLoop(stringify, (a + b) \div 2 + 1, b,
                HashLoop(stringify, a, (a + b) \div 2, hash))

\* for (let i = 0; i < stringify.length; i++), from hash = 0
HashAll(stringify) == HashLoop(stringify, 1, Len(stringify), <<0, 0>>)

\* the word read as a signed 32-bit integer
ToInt32(h) == IF h[1] < 32768 THEN h[1] * 65536 + h[2] ELSE (h[1] - 65536) * 65536 + h[2]

HashOfText(text) ==
  NumberToString(ToInt32(HashAll(Trim(_wrapMappingKey(text)))))

\* the hash of each type's definition text (lines 595-603)
TextHash == [t \in Types |-> HashOfText(TypeText[t])]

\* a cache that holds the newest identity only
WithName_onlyNew(names, source, hash) == [t \in {source} |-> hash]

\* this._classNameMap.set(source, hash)
WithName(names, source, hash) ==
  [t \in (DOMAIN names) \cup {source} |-> IF t = source THEN hash ELSE names[t]]

\* _getHash that never falls back to the prototype (lines 606-609 dropped)
_getHash_noProto(names, source, shouldCreate) ==
  IF source \in DOMAIN names THEN [hash |-> names[source], names |-> names]
  ELSE IF shouldCreate
    THEN [hash |-> TextHash[source], names |-> WithName(names, source, TextHash[source])]
  ELSE [hash |-> <<>>, names |-> names]

_getHash(names, source, shouldCreate) ==
  IF source \in DOMAIN names THEN [hash |-> names[source], names |-> names]
  ELSE IF shouldCreate
    THEN [hash |-> TextHash[source], names |-> WithName(names, source, TextHash[source])]
  ELSE IF _getProto(source) \in DOMAIN names
    THEN [hash |-> names[_getProto(source)], names |-> names]
  ELSE [hash |-> <<>>, names |-> names]

\* classes.map(c => this._getHash(c, shouldCreate)): the destination's hash,
\* after the source's
HashedDestination(s, destination, shouldCreate) ==
  [src |-> s.hash, d |-> _getHash(s.names, destination, shouldCreate)]

HashedPair(sd) == [src |-> sd.src, dest |-> sd.d.hash, names |-> sd.d.names]

_getHashedNames(names, source, destination, shouldCreate) ==
  HashedPair(HashedDestination(_getHash(names, source, shouldCreate),
                               destination, shouldCreate))

----------------------------------------------------------------------------
(* Values.  Every value is a record tagged by k, so that any two compare.  *)

Undefined == [k |-> "undefined"]
Null == [k |-> "null"]
Num(n) == [k |-> "number", n |-> n]
Bool(b) == [k |-> "boolean", b |-> b]
Str(s) == [k |-> "string", s |-> s]
\* a class instance: its constructor and its own properties
Obj(type, props) == [k |-> "object", type |-> type, props |-> props]
Arr(elems) == [k |-> "array", elems |-> elems]
DateOf(ms) == [k |-> "date", ms |-> ms]

\* a function of the source object (ValueSelector, predicate): s => s[field]
Selector(field) == [k |-> "selector", field |-> field]
\* an object with a resolve method (Resolver): resolve(s) = s[field]
ResolverOf(field) == [k |-> "resolver", field |-> field]
\* a hook function (beforeMap, afterMap, beforeMapAction, afterMapAction)
Hook(name) == [k |-> "function", name |-> name]

----------------------------------------------------------------------------
(* Mapping, MappingProperty, MappingTransformation (./types) *)

Transformation(type, preCondition) ==
  [ transformationType |-> [type |-> type, preCondition |-> preCondition],
    mapFrom |-> Undefined, fromValue |-> Undefined, convertUsing |-> Undefined,
    mapWith |-> Undefined, condition |-> Undefined, nullSubstitution |-> Undefined ]

\* the rule a property gets when none is configured: read the source member
MapInitialize(sourcePath) ==
  [Transformation("MapInitialize", Undefined) EXCEPT !.mapFrom = Selector(sourcePath)]

Property(destinationMemberPath, sourceMemberPath, transformation) ==
  [ destinationMemberPath |-> destinationMemberPath,
    sourceMemberPath |-> sourceMemberPath,
    transformation |-> transformation ]

PathsOf(properties) == {properties[i].destinationMemberPath : i \in 1..Len(properties)}

\* Map.prototype.set on mapping.properties: a path already present keeps its
\* position, a new path goes last
SetProperty(properties, prop) ==
  IF prop.destinationMemberPath \in PathsOf(properties)
    THEN [i \in 1..Len(properties) |->
            IF properties[i].destinationMemberPath = prop.destinationMemberPath
              THEN prop ELSE properties[i]]
    ELSE Append(properties, prop)

----------------------------------------------------------------------------
(* this._mappings as an object: keys in insertion order *)

HasKey(maps, key) == \E i \in 1..Len(maps) : maps[i].key = key

\* this._mappings[key]
AtKey(maps, key) ==
  IF HasKey(maps, key)
    THEN maps[CHOOSE i \in 1..Len(maps) : maps[i].key = key].mapping
    ELSE Undefined

\* this._mappings[key] = mapping
PutKey(maps, key, mapping) ==
  IF HasKey(maps, key)
    THEN [i \in 1..Len(maps) |->
            IF maps[i].key = key THEN [key |-> key, mapping |-> mapping] ELSE maps[i]]
    ELSE Append(maps, [key |-> key, mapping |-> mapping])

----------------------------------------------------------------------------
(* Registry: _hasMapping, _createMappingObject, _getMapping,                *)
(* _getMappingForDestination, _getMappingForNestedKey, _dispose.  Each     *)
(* takes the registry state (maps, names) and returns what it returns or   *)
(* throws, with the new state.                                             *)

NoError == "none"
DuplicateMappingError == "DuplicateMappingError"
MappingNotFoundError == "MappingNotFoundError"
IncompleteMappingError == "IncompleteMappingError"

\* lines 501-507: the key of the pair
HasMappingKey(names, source, destination, sourceKey, destinationKey) ==
  IF sourceKey # <<>> /\ destinationKey # <<>>
    THEN [src |-> sourceKey, dest |-> destinationKey, names |-> names]
    ELSE _getHashedNames(names, source, destination, TRUE)

\* lines 509-515
HasMappingCheck(maps, names, key) ==
  [ key |-> key, names |-> names,
    err |-> IF AtKey(maps, key) # Undefined THEN DuplicateMappingError ELSE NoError ]

HasMappingAt(maps, h) == HasMappingCheck(maps, h.names, _getMappingKey(h.src, h.dest))

\* _hasMapping without the throw of lines 509-513
_hasMapping_noThrow(maps, names, source, destination, sourceKey, destinationKey) ==
  [ HasMappingAt(maps, HasMappingKey(names, source, destination, sourceKey, destinationKey))
      EXCEPT !.err = NoError ]

_hasMapping(maps, names, source, destination, sourceKey, destinationKey) ==
  HasMappingAt(maps, HasMappingKey(names, source, destination, sourceKey, destinationKey))

\* lines 386-403
NewMapping(source, destination, options) ==
  [ source |-> source,
    sourceKey |-> TypeName[source],
    destination |-> destination,
    destinationKey |-> TypeName[destination],
    properties |-> <<>>,
    sourceMemberNamingConvention |-> options.sourceMemberNamingConvention,
    destinationMemberNamingConvention |-> options.destinationMemberNamingConvention,
    beforeMapAction |-> Undefined,
    afterMapAction |-> Undefined,
    baseSource |-> "undefined",
    baseDestination |-> "undefined" ]

\* what a registration returns: the throw of _hasMapping, or the registry
\* with the mapping stored under the key
Registered(maps, has, names, mapping) ==
  IF has.err # NoError
    THEN [maps |-> maps, names |-> has.names, err |-> has.err, value |-> Undefined]
    ELSE [ maps |-> PutKey(maps, has.key, mapping), names |-> names,
           err |-> NoError, value |-> mapping ]

\* a registration that stores before it checks (line 405 before line 380)
StoredFirst(maps, has, mapping) ==
  [ maps |-> PutKey(maps, has.key, mapping), names |-> has.names, err |-> has.err,
    value |-> IF has.err # NoError THEN Undefined ELSE mapping ]

CreateWithHash(maps, h, source, destination) ==
  _hasMapping(maps, h.names, source, destination, h.src, h.dest)

\* _createMappingObject with line 405 moved before the duplicate check
_createMappingObject_storesFirst(maps, names, source, destination, options) ==
  StoredFirst(maps,
    CreateWithHash(maps, _getHashedNames(names, source, destination, TRUE),
                   source, destination),
    NewMapping(source, destination, options))

CreateChecked(maps, has, mapping) == Registered(maps, has, has.names, mapping)

_createMappingObject(maps, names, source, destination, options) ==
  CreateChecked(maps,
    CreateWithHash(maps, _getHashedNames(names, source, destination, TRUE),
                   source, destination),
    NewMapping(source, destination, options))

\* lines 477-485
\* (key names the entry read: the Mapping returned is that entry's object)
LookedUp(names, key, mapping, mayBeMissing) ==
  [ names |-> names, key |-> key, value |-> mapping,
    err |-> IF mapping = Undefined /\ ~mayBeMissing THEN MappingNotFoundError ELSE NoError ]

LookupKey(maps, names, key, mayBeMissing) ==
  LookedUp(names, key, AtKey(maps, key), mayBeMissing)

LookupAt(maps, h, mayBeMissing) ==
  LookupKey(maps, h.names, _getMappingKey(h.src, h.dest), mayBeMissing)

\* _getMappingForDestination without the isInherit test of line 479
_getMappingForDestination_throws(maps, names, destination, sourceObj, isInherit) ==
  LookupAt(maps, _getHashedNames(names, sourceObj, destination, FALSE), FALSE)

_getMappingForDestination(maps, names, destination, sourceObj, isInherit) ==
  LookupAt(maps, _getHashedNames(names, sourceObj, destination, FALSE), isInherit)

_getMapping(maps, names, source, destination) ==
  LookupAt(maps, _getHashedNames(names, source, destination, TRUE), FALSE)

\* Object.entries(this._mappings).filter(includes).find(sourceKey === name)
NestedEntries(maps, mappingName, name) ==
  SelectSeq(maps, LAMBDA e : Includes(e.key, mappingName) /\ e.mapping.sourceKey = name)

\* lines 555-577
NestedFound(maps, names, valType, found) ==
  IF found = <<>>
    THEN [names |-> names, key |-> <<>>, value |-> Undefined, err |-> MappingNotFoundError]
    ELSE _getMapping(maps, names, valType, found[1].mapping.destination)

_getMappingForNestedKey(maps, names, valType) ==
  NestedFound(maps, names, valType,
    NestedEntries(maps, _getHash(names, valType, FALSE).hash, TypeName[valType]))

\* _initializeReversedMappingProperties: a forward property that recorded its
\* source path becomes a structural copy in the other direction
ReversedProperty(p) ==
  Property(p.sourceMemberPath, p.destinationMemberPath,
           MapInitialize(p.destinationMemberPath))

RECURSIVE _initializeReversedMappingProperties(_)
_initializeReversedMappingProperties(properties) ==
  IF properties = <<>> THEN <<>>
  ELSE IF properties[Len(properties)].sourceMemberPath = "undefined"
    THEN _initializeReversedMappingProperties(SubSeq(properties, 1, Len(properties) - 1))
  ELSE SetProperty(
         _initializeReversedMappingProperties(SubSeq(properties, 1, Len(properties) - 1)),
         ReversedProperty(properties[Len(properties)]))

\* _inheritBaseMapping: the base mapping's rules for the paths the mapping lacks
RECURSIVE _inheritBaseMapping(_, _)
_inheritBaseMapping(properties, baseProperties) ==
  IF baseProperties = <<>> THEN properties
  ELSE _inheritBaseMapping(
         IF Head(baseProperties).destinationMemberPath \in PathsOf(properties)
           THEN properties ELSE Append(properties, Head(baseProperties)),
         Tail(baseProperties))

\* ReversedMapping that keeps the forward mapping's naming conventions
ReversedMapping_keepsConventions(mapping) ==
  [ source |-> mapping.destination,
    sourceKey |-> TypeName[mapping.destination],
    destination |-> mapping.source,
    destinationKey |-> TypeName[mapping.source],
    sourceMemberNamingConvention |-> mapping.sourceMemberNamingConvention,
    destinationMemberNamingConvention |-> mapping.destinationMemberNamingConvention,
    properties |-> _initializeReversedMappingProperties(mapping.properties),
    beforeMapAction |-> Undefined,
    afterMapAction |-> Undefined,
    baseSource |-> mapping.baseDestination,
    baseDestination |-> mapping.baseSource ]

\* lines 418-439
ReversedMapping(mapping) ==
  [ source |-> mapping.destination,
    sourceKey |-> TypeName[mapping.destination],
    destination |-> mapping.source,
    destinationKey |-> TypeName[mapping.source],
    sourceMemberNamingConvention |-> mapping.destinationMemberNamingConvention,
    destinationMemberNamingConvention |-> mapping.sourceMemberNamingConvention,
    properties |-> _initializeReversedMappingProperties(mapping.properties),
    beforeMapAction |-> Undefined,
    afterMapAction |-> Undefined,
    baseSource |-> mapping.baseDestination,
    baseDestination |-> mapping.baseSource ]

\* lines 441-449: the probe for the reverse of the base pair
ReversedBase(maps, names, reversed) ==
  IF reversed.baseSource # "undefined" /\ reversed.baseDestination # "undefined"
    THEN _getMappingForDestination(maps, names, reversed.baseDestination,
                                   reversed.baseSource, TRUE)
    ELSE [names |-> names, key |-> <<>>, value |-> Undefined, err |-> NoError]

\* lines 450-456
ReversedInherited(maps, has, reversed, base) ==
  Registered(maps, has, base.names,
    IF base.value # Undefined
      THEN [reversed EXCEPT !.properties = _inheritBaseMapping(@, base.value.properties)]
      ELSE reversed)

ReversedChecked(maps, has, reversed) ==
  IF has.err # NoError
    THEN Registered(maps, has, has.names, reversed)
    ELSE ReversedInherited(maps, has, reversed, ReversedBase(maps, has.names, reversed))

_createReversedMappingObject(maps, names, mapping) ==
  ReversedChecked(maps,
    _hasMapping(maps, names, mapping.destination, mapping.source, <<>>, <<>>),
    ReversedMapping(mapping))

NoNames == [t \in {} |-> <<>>]

\* _dispose without line 461
_dispose_keepsNames(maps, names) == [maps |-> <<>>, names |-> names]

_dispose(maps, names) == [maps |-> <<>>, names |-> NoNames]

----------------------------------------------------------------------------
(* State after construction, and the operations on the registry *)

Result(op, args, status, value) ==
  [op |-> op, args |-> args, status |-> status, value |-> value]

Init ==
  /\ _mappings = <<>>
  /\ _classNameMap = NoNames
  /\ outcome = Result("constructor", <<>>, NoError, Undefined)
  /\ trace = <<>>
  /\ queue = <<>>
  /\ created = {}

\* CreateMapOptions the callers pass
NoConvention == [ sourceMemberNamingConvention |-> "undefined",
                  destinationMemberNamingConvention |-> "undefined" ]
CamelToPascal == [ sourceMemberNamingConvention |-> "camelCase",
                   destinationMemberNamingConvention |-> "PascalCase" ]
\* the options the registry operations are called with
RegistryOptions == {CamelToPascal}

\* the types the registry operations are called with
RegistryTypes == {"User", "User2", "UserVm"}

\* the pairs the registry holds
RegisteredPairs ==
  {<<_mappings[i].mapping.source, _mappings[i].mapping.destination>> : i \in 1..Len(_mappings)}

\* the registry after a registration returned or threw r
RegistrationDone(op, source, destination, r) ==
  /\ Len(r.maps) <= MaxMappings
  /\ _mappings' = r.maps
  /\ _classNameMap' = r.names
  /\ outcome' = Result(op, <<source, destination>>, r.err, r.value)
  /\ created' = IF r.err = NoError /\ op = "createMapping"
                  THEN created \cup {<<source, destination>>} ELSE created
  /\ trace' = <<>>
  /\ UNCHANGED queue

CreateMapping(source, destination, options) ==
  RegistrationDone("createMapping", source, destination,
    _createMappingObject(_mappings, _classNameMap, source, destination, options))

CreateReverseMapping(i) ==
  RegistrationDone("createReverseMapping",
    _mappings[i].mapping.source, _mappings[i].mapping.destination,
    _createReversedMappingObject(_mappings, _classNameMap, _mappings[i].mapping))

ResolveDone(r) ==
  /\ _classNameMap' = r.names
  /\ outcome' = Result("resolve", <<>>, r.err, r.value)
  /\ trace' = <<>>
  /\ UNCHANGED <<_mappings, queue, created>>

Resolve(source, destination) ==
  ResolveDone(_getMapping(_mappings, _classNameMap, source, destination))

ResetDone(r) ==
  /\ _mappings' = r.maps
  /\ _classNameMap' = r.names
  /\ outcome' = Result("reset", <<>>, NoError, Undefined)
  /\ trace' = <<[ev |-> "dispose", discarded |-> RegisteredPairs]>>
  /\ created' = {}
  /\ UNCHANGED queue

Reset == ResetDone(_dispose(_mappings, _classNameMap))

\* the configuration layer's forMember: mapping.properties.set(path, rule)
RegistryRules == {Property("name", "name", MapInitialize("name"))}

ForMember(i, prop) ==
  /\ _mappings' = [_mappings EXCEPT ![i].mapping.properties = SetProperty(@, prop)]
  /\ outcome' = Result("forMember", <<>>, NoError, Undefined)
  /\ trace' = <<>>
  /\ UNCHANGED <<_classNameMap, queue, created>>

NextRegistry ==
  \/ \E s \in RegistryTypes, d \in RegistryTypes, o \in RegistryOptions : CreateMapping(s, d, o)
  \/ \E i \in 1..Len(_mappings) : CreateReverseMapping(i)
  \/ \E s \in RegistryTypes, d \in RegistryTypes : Resolve(s, d)
  \/ \E i \in 1..Len(_mappings), prop \in RegistryRules : ForMember(i, prop)
  \/ Reset

SpecRegistry == Init /\ [][NextRegistry]_vars

----------------------------------------------------------------------------
(* Claims about the registry, checked under SpecRegistry *)

\* what resolve(source, destination) would return or throw in this state
ResolveNow(source, destination) ==
  _getMapping(_mappings, _classNameMap, source, destination)

\* what createMapping(source, destination, options) would throw in this state
CreateNow(source, destination, options) ==
  _createMappingObject(_mappings, _classNameMap, source, destination, options).err

\* the mapping every pair of the types in use resolves to (Undefined:
\* MappingNotFoundError)
ResolveView == [p \in RegistryTypes \X RegistryTypes |-> ResolveNow(p[1], p[2]).value]

\* C1: once createMapping(S,D) has succeeded and no reset happened since,
\* resolve(S,D) returns a mapping with source S and destination D, and another
\* createMapping(S,D) fails with DuplicateMappingError, whatever was
\* registered in between.
C1_CreatedPairResolves ==
  \A p \in created :
    /\ ResolveNow(p[1], p[2]).err = NoError
    /\ ResolveNow(p[1], p[2]).value.source = p[1]
    /\ ResolveNow(p[1], p[2]).value.destination = p[2]
    /\ \A o \in {NoConvention, CamelToPascal} :
         CreateNow(p[1], p[2], o) = DuplicateMappingError

\* a pair was created, another registration followed, and the second
\* createMapping of the pair has just failed
C1_Witness ==
  /\ outcome.op = "createMapping"
  /\ outcome.status = DuplicateMappingError
  /\ outcome.args \in created
  /\ Len(_mappings) = 2
  /\ <<_mappings[1].mapping.source, _mappings[1].mapping.destination>> = outcome.args

\* C2: a createMapping or createReverseMapping that fails with
\* DuplicateMappingError leaves the registered mappings as they were: every
\* pair resolves to the same Mapping record as before, and no other pair
\* resolves.
C2_FailedRegistrationKeepsMappings ==
  [][ ( /\ outcome'.op \in {"createMapping", "createReverseMapping"}
        /\ outcome'.status = DuplicateMappingError )
      => /\ _mappings' = _mappings
         /\ (_classNameMap' # _classNameMap => ResolveView' = ResolveView) ]_vars

\* a createReverseMapping has failed on a registry that holds a configured
\* mapping and its reverse
C2_Witness ==
  /\ outcome.op = "createReverseMapping"
  /\ outcome.status = DuplicateMappingError
  /\ Len(_mappings) = 2
  /\ _mappings[1].mapping.properties # <<>>

\* C3: distinct ordered pairs never share a registry key: createMapping(S2,D2)
\* is rejected as a duplicate only if the pair (S2,D2) itself is registered,
\* and resolve(S2,D2) never returns a mapping registered for another pair,
\* also when S2 has the same definition text as a registered type.
C3_DistinctPairsDistinctKeys ==
  \A s2 \in Types, d2 \in Types :
    /\ CreateNow(s2, d2, NoConvention) = DuplicateMappingError
         => <<s2, d2>> \in RegisteredPairs
    /\ ResolveNow(s2, d2).err = NoError
         => /\ ResolveNow(s2, d2).value.source = s2
            /\ ResolveNow(s2, d2).value.destination = d2

\* C10: immediately after reset the registry is in its initial empty state:
\* resolve fails with MappingNotFoundError for every pair, no type has a
\* cached identity, and createMapping succeeds for every pair, the pairs
\* registered before the reset included.
C10_ResetRestoresInitialState ==
  outcome.op = "reset" =>
    /\ _mappings = <<>>
    /\ DOMAIN _classNameMap = {}
    /\ \A s \in Types, d \in Types :
         /\ ResolveNow(s, d).err = MappingNotFoundError
         /\ _getHash(_classNameMap, s, FALSE).hash = <<>>
         /\ CreateNow(s, d, NoConvention) = NoError

\* a reset has just discarded two registered mappings
C10_Witness ==
  /\ outcome.op = "reset"
  /\ Cardinality(trace[1].discarded) = 2

----------------------------------------------------------------------------
(* utils and collaborators of the mapper *)

\* the settable properties a type declares (what instantiate creates)
TypeFields ==
  [t \in Types |->
     CASE t \in {"User", "User2", "User3", "Admin"} -> {"name", "addr", "boss"}
       [] t = "UserVm" -> {"name", "addr", "boss"}
       [] t \in {"Addr", "AddrVm"} -> {"street"}
       [] OTHER -> {}]

NoProps == [f \in {} |-> Undefined]

\* instantiate(type): a new instance, every declared property undefined
Instance(type, id) ==
  [k |-> "object", type |-> type, id |-> id, props |-> [f \in TypeFields[type] |-> Undefined]]

PropsOf(v) == IF v.k = "object" THEN v.props ELSE NoProps

\* obj[field]
GetProp(obj, field) ==
  IF field \in DOMAIN PropsOf(obj) THEN PropsOf(obj)[field] ELSE Undefined

\* a selector or predicate applied to the source object
Select(fn, sourceObj) == GetProp(sourceObj, fn.field)

\* value.constructor
CtorOf(v) == IF v.k = "array" THEN "Array" ELSE v.type

RECURSIVE IsSubclass(_, _)
IsSubclass(t, type) ==
  t = type \/ (t \in Types /\ IsSubclass(Extends[t], type))

\* sourceObj instanceof type
InstanceOf(v, type) == v.k = "object" /\ IsSubclass(v.type, type)

\* v || null  is  v  exactly when v is truthy
Truthy(v) ==
  ~(v.k \in {"undefined", "null"} \/ v = Num(0) \/ v = Bool(FALSE) \/ v = Str(""))

OrNull(v) == IF Truthy(v) THEN v ELSE Null

_isEmpty(v) == v.k \in {"undefined", "null"} \/ (v.k = "array" /\ v.elems = <<>>)

_isObjectLike(v) == v.k \in {"object", "array", "date"}

_isClass(v) == v.k \in {"object", "array"}

_isDate(v) == v.k = "date"

_isResolver(fn) == fn.k = "resolver"

\* _get(obj, defaultVal, path)
GetOr(v, defaultVal) == IF v.k \in {"undefined", "null"} THEN defaultVal ELSE v

_get(sourceObj, defaultVal, path) == GetOr(GetProp(sourceObj, path), defaultVal)

\* converter.convert(value)
Convert(converter, value) == [k |-> "converted", by |-> converter, value |-> value]

\* the camelCase spelling of the PascalCase paths in use, and back
CamelCase == [p \in {"Name", "Addr", "Boss", "Street"} |->
                CASE p = "Name" -> "name" [] p = "Addr" -> "addr"
                  [] p = "Boss" -> "boss" [] p = "Street" -> "street"]

PascalCase == [p \in {"name", "addr", "boss", "street"} |->
                 CASE p = "name" -> "Name" [] p = "addr" -> "Addr"
                   [] p = "boss" -> "Boss" [] p = "street" -> "Street"]

\* _getSourcePropertyKey: the destination path in the source's convention
_getSourcePropertyKey(destinationConvention, sourceConvention, path) ==
  IF destinationConvention = "undefined" \/ sourceConvention = "undefined"
       \/ destinationConvention = sourceConvention
    THEN path
  ELSE IF sourceConvention = "camelCase" /\ path \in DOMAIN CamelCase THEN CamelCase[path]
  ELSE IF sourceConvention = "PascalCase" /\ path \in DOMAIN PascalCase THEN PascalCase[path]
  ELSE path

\* lodash set(obj, path, value)
PropsWith(props, path, value) ==
  [f \in (DOMAIN props) \cup {path} |-> IF f = path THEN value ELSE props[f]]

\* _assertMappingErrors: the declared paths neither configured nor set
Unmapped(destinationObj, configKeys) ==
  {f \in DOMAIN destinationObj.props :
     f \notin configKeys /\ destinationObj.props[f] = Undefined}

\* _setMappingPropertyForMapFromMember: records the source path of the member
RecordSourcePath(properties, path, sourcePath) ==
  [i \in 1..Len(properties) |->
     IF properties[i].destinationMemberPath = path
       THEN [properties[i] EXCEPT !.sourceMemberPath = sourcePath]
       ELSE properties[i]]

_setMappingPropertyForMapFromMember(maps, key, path, sourcePath) ==
  [i \in 1..Len(maps) |->
     IF maps[i].key = key
       THEN [maps[i] EXCEPT !.mapping.properties = RecordSourcePath(@, path, sourcePath)]
       ELSE maps[i]]

\* defaultMapActionOptions, and the {} that _mapArray passes
NoOption == [beforeMap |-> Undefined, afterMap |-> Undefined]

----------------------------------------------------------------------------
(* The graph mapper: _map, _mapMember, _mapArray.  A call runs on an       *)
(* evaluation state st: the registry (maps, names), the events so far      *)
(* (trace), the exception in flight (err), the value returned (ret) and    *)
(* the frame of the running _map: its destination object (dest), that      *)
(* object's identity (frame), the nesting depth, and whether the frame maps *)
(* an element of a batch (elem; asElem announces it to the next frame).    *)
(* A Mapping argument is the key of its registry entry: the object is      *)
(* shared with the registry.                                               *)

NewEval(maps, names, events, call) ==
  [ maps |-> maps, names |-> names, trace |-> events, call |-> call,
    err |-> NoError, ret |-> Undefined, dest |-> Undefined,
    frame |-> 0, depth |-> 0, elem |-> FALSE, asElem |-> FALSE ]

Log(st, ev, path, arg) ==
  [st EXCEPT !.trace = Append(@,
     [ ev |-> ev, call |-> st.call, frame |-> st.frame, depth |-> st.depth,
       elem |-> st.elem, path |-> path, arg |-> arg ])]

\* throw new Error(...)
Throw(st, err) == [Log(st, "throw", "", Str(err)) EXCEPT !.err = err]

\* set(destinationObj, destinationMemberPath, value)
SetDest(st, path, value) ==
  [Log(st, "set", path, value) EXCEPT !.dest.props = PropsWith(@, path, value)]

\* a user function (selector, predicate, converter, resolver) is called
Call(st, path, fn) == Log(st, "call", path, fn)

\* how many instances instantiate has made so far
Instances(events) ==
  Cardinality({i \in 1..Len(events) : events[i].ev = "instantiate"})

\* line 130
EnterFrame(st, id, key, type) ==
  Log([st EXCEPT !.frame = id, !.depth = @ + 1, !.elem = st.asElem, !.asElem = FALSE,
                 !.dest = Instance(type, id)],
      "instantiate", "", [k |-> "instance", type |-> type, id |-> id, mapping |-> key])

\* an instantiate that hands out the instance of the nesting level again
Enter_reusesInstance(st, key, mapping) ==
  EnterFrame(st, st.depth + 1, key, mapping.destination)

Enter(st, key, mapping) ==
  EnterFrame(st, Instances(st.trace) + 1, key, mapping.destination)

\* the caller's frame again, with what the callee returned or threw
Leave(caller, callee) ==
  [callee EXCEPT !.frame = caller.frame, !.depth = caller.depth, !.elem = caller.elem,
                 !.asElem = FALSE, !.dest = caller.dest,
                 !.ret = IF callee.err = NoError THEN callee.dest ELSE Undefined]

\* a before-hook stage that prefers the configured hook
MapBefore_configuredFirst(st, mapping, option, isArrayMap) ==
  IF isArrayMap THEN st
  ELSE IF mapping.beforeMapAction # Undefined
    THEN Log(st, "beforeMapAction", "", mapping.beforeMapAction)
  ELSE IF option.beforeMap # Undefined THEN Log(st, "beforeMap", "", option.beforeMap)
  ELSE st

\* lines 132-138
MapBefore(st, mapping, option, isArrayMap) ==
  IF isArrayMap THEN st
  ELSE IF option.beforeMap # Undefined THEN Log(st, "beforeMap", "", option.beforeMap)
  ELSE IF mapping.beforeMapAction # Undefined
    THEN Log(st, "beforeMapAction", "", mapping.beforeMapAction)
  ELSE st

\* lines 174-180
MapAfter(st, mapping, option, isArrayMap) ==
  IF isArrayMap THEN st
  ELSE IF option.afterMap # Undefined THEN Log(st, "afterMap", "", option.afterMap)
  ELSE IF mapping.afterMapAction # Undefined
    THEN Log(st, "afterMapAction", "", mapping.afterMapAction)
  ELSE st

\* an end of _map that runs the after-hook before it looks at the coverage
Asserted_hookFirst(st, unmapped, mapping, option, isArrayMap) ==
  IF unmapped # {} THEN Throw(MapAfter(st, mapping, option, isArrayMap), IncompleteMappingError)
  ELSE Log(MapAfter(st, mapping, option, isArrayMap), "return", "", Undefined)

\* lines 172-182
Asserted(st, unmapped, mapping, option, isArrayMap) ==
  IF unmapped # {} THEN Throw(st, IncompleteMappingError)
  ELSE Log(MapAfter(st, mapping, option, isArrayMap), "return", "", Undefined)

MapEnd(st, mapping, option, isArrayMap) ==
  IF st.err # NoError THEN st
  ELSE Asserted(Log(st, "_assertMappingErrors", "", Undefined),
                Unmapped(st.dest, PathsOf(mapping.properties)),
                mapping, option, isArrayMap)

\* a nested call whose exception is caught: the path is set to null
SetReturned_swallows(st, path) ==
  IF st.err # NoError THEN SetDest([st EXCEPT !.err = NoError], path, Null)
  ELSE SetDest(st, path, st.ret)

\* set(destinationObj, path, <what the nested call returned>), unless it threw
SetReturned(st, path) == IF st.err # NoError THEN st ELSE SetDest(st, path, st.ret)

\* the registry lookup of a nested rule has returned or thrown r
Looked(st, path, type, r) ==
  Log([st EXCEPT !.names = r.names], "lookup", path,
      [k |-> "lookup", type |-> type, found |-> r.err = NoError])

FirstOf(elems) == IF elems = <<>> THEN Undefined ELSE elems[1]

RECURSIVE _map(_, _, _, _, _)
RECURSIVE _mapArray(_, _, _, _)
RECURSIVE PropsLoop(_, _, _, _, _)

\* lines 243-255
MapWithFound(st, path, _source, r) ==
  IF r.err # NoError THEN Throw(st, r.err)
  ELSE IF _source.k = "array"
    THEN IF _isEmpty(FirstOf(_source.elems))
           THEN SetDest(st, path, Arr(<<>>))
           ELSE SetReturned(_mapArray(st, _source.elems, r.key, NoOption), path)
  ELSE SetReturned(_map(st, _source, r.key, NoOption, FALSE), path)

\* lines 238-241
MapWithLooked(st, path, _source, r) ==
  MapWithFound(Looked(st, path, CtorOf(_source), r), path, _source, r)

\* lines 224-241
MapWithSource(st, path, _source, destination) ==
  IF _isEmpty(_source) \/ ~_isClass(_source)
    THEN SetDest(Log(st, "warn", path, _source), path, Null)
    ELSE MapWithLooked(st, path, _source,
           _getMappingForDestination(st.maps, st.names, destination, CtorOf(_source), FALSE))

\* lines 340-344 and 354-358
NestedFoundMapped(st, path, sourceVal, r) ==
  IF r.err # NoError THEN Throw(st, r.err)
  ELSE IF sourceVal.k = "array"
    THEN SetReturned(_mapArray(st, sourceVal.elems, r.key, NoOption), path)
  ELSE SetReturned(_map(st, sourceVal, r.key, NoOption, FALSE), path)

\* lines 339 and 353
NestedLooked(st, path, sourceVal, type, r) ==
  NestedFoundMapped(Looked(st, path, type, r), path, sourceVal, r)

\* lines 315-363
MapDefault(st, path, sourceVal) ==
  IF sourceVal.k \in {"undefined", "null"} THEN SetDest(st, path, Null)
  ELSE IF _isObjectLike(sourceVal) /\ _isDate(sourceVal)
    THEN SetDest(st, path, DateOf(sourceVal.ms))
  ELSE IF _isObjectLike(sourceVal) /\ sourceVal.k = "array"
            /\ _isEmpty(FirstOf(sourceVal.elems))
    THEN SetDest(st, path, Arr(<<>>))
  ELSE IF _isObjectLike(sourceVal) /\ sourceVal.k = "array"
            /\ ~_isObjectLike(FirstOf(sourceVal.elems))
    THEN SetDest(st, path, Arr(sourceVal.elems))
  ELSE IF _isObjectLike(sourceVal) /\ sourceVal.k = "array"
    THEN NestedLooked(st, path, sourceVal, CtorOf(FirstOf(sourceVal.elems)),
           _getMappingForNestedKey(st.maps, st.names, CtorOf(FirstOf(sourceVal.elems))))
  ELSE IF _isClass(sourceVal)
    THEN NestedLooked(st, path, sourceVal, CtorOf(sourceVal),
           _getMappingForNestedKey(st.maps, st.names, CtorOf(sourceVal)))
  ELSE SetDest(st, path, sourceVal)

\* lines 185-364
_mapMember(st, path, sourceObj, propSourceMemberPath, key, transformation) ==
  CASE transformation.transformationType.type = "Ignore" ->
         SetDest(st, path, Null)
    [] transformation.transformationType.type = "ConvertUsing" ->
         SetDest(Call(Call(st, path, transformation.convertUsing.value),
                      path, transformation.convertUsing.converter),
                 path,
                 Convert(transformation.convertUsing.converter,
                         Select(transformation.convertUsing.value, sourceObj)))
    [] transformation.transformationType.type = "MapWith" ->
         MapWithSource(Call(st, path, transformation.mapWith.fromValue), path,
                       Select(transformation.mapWith.fromValue, sourceObj),
                       transformation.mapWith.destination)
    [] transformation.transformationType.type = "FromValue" ->
         SetDest(st, path, transformation.fromValue)
    [] transformation.transformationType.type = "Condition" ->
         IF transformation.condition # Undefined
              /\ Truthy(Select(transformation.condition.predicate, sourceObj))
           THEN SetDest(Call(st, path, transformation.condition.predicate), path,
                        _get(sourceObj, Null, propSourceMemberPath))
           ELSE SetDest(IF transformation.condition # Undefined
                          THEN Call(st, path, transformation.condition.predicate)
                          ELSE st,
                        path,
                        IF transformation.condition # Undefined
                          THEN OrNull(transformation.condition.defaultValue)
                          ELSE Null)
    [] transformation.transformationType.type = "NullSubstituion" ->
         SetDest(st, path, _get(sourceObj, transformation.nullSubstitution, propSourceMemberPath))
    [] transformation.transformationType.type = "MapFrom" ->
         IF _isResolver(transformation.mapFrom)
           THEN SetDest(Call(st, path, transformation.mapFrom), path,
                        Select(transformation.mapFrom, sourceObj))
           ELSE [SetDest(Call(st, path, transformation.mapFrom), path,
                         Select(transformation.mapFrom, sourceObj))
                   EXCEPT !.maps = _setMappingPropertyForMapFromMember(
                                     @, key, path, propSourceMemberPath)]
    [] OTHER ->
         MapDefault(Call(st, path, transformation.mapFrom), path,
                    Select(transformation.mapFrom, sourceObj))

\* PropStep writing the configured default as it is
PropStep_rawDefault(st, sourceObj, key, mapping, prop) ==
  IF prop.transformation.transformationType.preCondition # Undefined
       /\ ~Truthy(Select(prop.transformation.transformationType.preCondition.predicate,
                         sourceObj))
    THEN SetDest(Log(st, "property", prop.destinationMemberPath, Bool(FALSE)),
                 prop.destinationMemberPath,
                 prop.transformation.transformationType.preCondition.defaultValue)
    ELSE _mapMember(Log(st, "property", prop.destinationMemberPath, Bool(TRUE)),
                    prop.destinationMemberPath, sourceObj,
                    _getSourcePropertyKey(mapping.destinationMemberNamingConvention,
                                          mapping.sourceMemberNamingConvention,
                                          prop.destinationMemberPath),
                    key, prop.transformation)

\* PropStep without the continue: the rule runs after the default is written
PropStep_noContinue(st, sourceObj, key, mapping, prop) ==
  _mapMember(IF prop.transformation.transformationType.preCondition # Undefined
                  /\ ~Truthy(Select(prop.transformation.transformationType.preCondition.predicate,
                                    sourceObj))
               THEN SetDest(Log(st, "property", prop.destinationMemberPath, Bool(FALSE)),
                            prop.destinationMemberPath,
                            OrNull(prop.transformation.transformationType.preCondition.defaultValue))
               ELSE Log(st, "property", prop.destinationMemberPath, Bool(TRUE)),
             prop.destinationMemberPath, sourceObj,
             _getSourcePropertyKey(mapping.destinationMemberNamingConvention,
                                   mapping.sourceMemberNamingConvention,
                                   prop.destinationMemberPath),
             key, prop.transformation)

\* lines 150-169: one turn of the loop over the properties
PropStep(st, sourceObj, key, mapping, prop) ==
  IF prop.transformation.transformationType.preCondition # Undefined
       /\ ~Truthy(Select(prop.transformation.transformationType.preCondition.predicate,
                         sourceObj))
    THEN SetDest(Log(st, "property", prop.destinationMemberPath, Bool(FALSE)),
                 prop.destinationMemberPath,
                 OrNull(prop.transformation.transformationType.preCondition.defaultValue))
    ELSE _mapMember(Log(st, "property", prop.destinationMemberPath, Bool(TRUE)),
                    prop.destinationMemberPath, sourceObj,
                    _getSourcePropertyKey(mapping.destinationMemberNamingConvention,
                                          mapping.sourceMemberNamingConvention,
                                          prop.destinationMemberPath),
                    key, prop.transformation)

\* lines 140-170: props is the snapshot of mapping.properties taken at line 140
PropsLoop(st, sourceObj, key, mapping, i) ==
  IF st.err # NoError \/ i > Len(mapping.properties) THEN st
  ELSE PropsLoop(PropStep(st, sourceObj, key, mapping, mapping.properties[i]),
                 sourceObj, key, mapping, i + 1)

\* lines 119-182, on the source object of line 118
MapBody(st, sourceObj, key, mapping, option, isArrayMap) ==
  MapEnd(PropsLoop(MapBefore(Enter(st, key, mapping), mapping, option, isArrayMap),
                   sourceObj, key, mapping, 1),
         mapping, option, isArrayMap)

\* lines 117-118: instantiate(mapping.source, sourceObj)
Coerced(sourceObj, type) ==
  IF InstanceOf(sourceObj, type) THEN sourceObj ELSE Obj(type, PropsOf(sourceObj))

\* lines 108-183
_map(st, sourceObj, key, option, isArrayMap) ==
  Leave(st, MapBody(st, Coerced(sourceObj, AtKey(st.maps, key).source), key,
                    AtKey(st.maps, key), option, isArrayMap))

RECURSIVE ElemLoop(_, _, _, _, _)

\* the element's destination joins the array that .map builds
ElemMapped(st, elems, key, i, acc) ==
  IF st.err # NoError THEN st ELSE ElemLoop(st, elems, key, i + 1, Append(acc, st.ret))

\* an element loop that maps each element as a mapOne of its own
ElemLoop_withHooks(st, elems, key, i, acc) ==
  IF st.err # NoError THEN st
  ELSE IF i > Len(elems) THEN [st EXCEPT !.ret = Arr(acc)]
  ELSE ElemMapped(_map([st EXCEPT !.asElem = TRUE], elems[i], key, NoOption, FALSE),
                  elems, key, i, acc)

\* line 84: sourceArray.map(s => this._map(s, mapping, {}, true))
ElemLoop(st, elems, key, i, acc) ==
  IF st.err # NoError THEN st
  ELSE IF i > Len(elems) THEN [st EXCEPT !.ret = Arr(acc)]
  ELSE ElemMapped(_map([st EXCEPT !.asElem = TRUE], elems[i], key, NoOption, TRUE),
                  elems, key, i, acc)

\* lines 78-82
ArrayBefore(st, elems, option) ==
  IF option.beforeMap # Undefined
    THEN Log(st, "arrayBeforeMap", "",
             [k |-> "hook", fn |-> option.beforeMap, source |-> Arr(elems),
              destination |-> Arr(<<>>)])
    ELSE st

\* lines 86-91
ArrayAfter(st, elems, option) ==
  IF st.err # NoError THEN st
  ELSE IF option.afterMap # Undefined
    THEN Log(st, "arrayAfterMap", "",
             [k |-> "hook", fn |-> option.afterMap, source |-> Arr(elems),
              destination |-> st.ret])
  ELSE st

\* lines 67-92
_mapArray(st, elems, key, option) ==
  ArrayAfter(ElemLoop(ArrayBefore(st, elems, option), elems, key, 1, <<>>), elems, option)

----------------------------------------------------------------------------
(* Mapping one object and mapping an array, on configured registries *)

\* forMember(..., mapWith(destination, fromValue)) and the other rule kinds
MapWithRule(destination, fromValue) ==
  [Transformation("MapWith", Undefined)
     EXCEPT !.mapWith = [destination |-> destination, fromValue |-> fromValue]]

MapFromRule(mapFrom, preCondition) ==
  [Transformation("MapFrom", preCondition) EXCEPT !.mapFrom = mapFrom]

FromValueRule(value) == [Transformation("FromValue", Undefined) EXCEPT !.fromValue = value]

ConditionRule(predicate, defaultValue) ==
  [Transformation("Condition", Undefined)
     EXCEPT !.condition = [predicate |-> predicate, defaultValue |-> defaultValue]]

IgnoreRule == Transformation("Ignore", Undefined)

PreCondition(predicate, defaultValue) ==
  [predicate |-> predicate, defaultValue |-> defaultValue]

\* name and addr by the default rule, boss through the mapping to UserVm
UserRules ==
  << Property("name", "name", MapInitialize("name")),
     Property("addr", "addr", MapInitialize("addr")),
     Property("boss", "undefined", MapWithRule("UserVm", Selector("boss"))) >>

\* boss has no rule: the coverage check fails
UserRulesWithoutBoss ==
  << Property("name", "name", MapInitialize("name")),
     Property("addr", "undefined", IgnoreRule) >>

\* no nested mapping: a selector behind a precondition, a condition, a constant
FlatUserRules ==
  << Property("boss", "undefined", FromValueRule(Num(0))),
     Property("name", "undefined",
              MapFromRule(Selector("name"), PreCondition(Selector("addr"), Num(0)))),
     Property("addr", "undefined", ConditionRule(Selector("boss"), Str(""))) >>

AddrRules == << Property("street", "street", MapInitialize("street")) >>

\* the mapping just created gets its rules and its configured hooks
WithRules(r, properties, beforeMapAction, afterMapAction) ==
  [r EXCEPT !.maps[Len(r.maps)].mapping =
     [@ EXCEPT !.properties = properties,
               !.beforeMapAction = beforeMapAction,
               !.afterMapAction = afterMapAction]]

\* createMap(source, destination) on the registry r, then its configuration
Created(r, source, destination, properties, beforeMapAction, afterMapAction) ==
  WithRules(_createMappingObject(r.maps, r.names, source, destination, NoConvention),
            properties, beforeMapAction, afterMapAction)

EmptyRegistry == [maps |-> <<>>, names |-> NoNames, err |-> NoError, value |-> Undefined]

UserOnly(properties, beforeMapAction, afterMapAction) ==
  Created(EmptyRegistry, "User", "UserVm", properties, beforeMapAction, afterMapAction)

\* the registries the map calls run on
Scenarios ==
  { \* every nested type registered, hooks configured on both mappings
    Created(UserOnly(UserRules, Hook("userBefore"), Hook("userAfter")),
            "Addr", "AddrVm", AddrRules, Hook("addrBefore"), Hook("addrAfter")),
    \* Addr is not the source of any mapping
    UserOnly(UserRules, Undefined, Hook("userAfter")),
    \* a destination property without a rule
    Created(UserOnly(UserRulesWithoutBoss, Hook("userBefore"), Hook("userAfter")),
            "Addr", "AddrVm", AddrRules, Undefined, Undefined),
    \* no nested mapping needed
    UserOnly(FlatUserRules, Hook("userBefore"), Undefined) }

Street == Obj("Addr", [street |-> Str("main")])

Person(type, name, addr, boss) ==
  Obj(type, [name |-> Str(name), addr |-> addr, boss |-> boss])

Ann == Person("User", "ann", Street, Undefined)

\* the objects the callers map
Sources ==
  { Ann,
    Person("User", "bob", Null, Ann),
    \* the boss is an Admin, a subclass of User that is no mapping's source
    Person("User", "cy", Null, Person("Admin", "root", Null, Undefined)),
    \* a class of its own with the name and the definition text of User
    Person("User2", "dee", Person("User2", "eve", Null, Undefined), Undefined),
    \* the boss is an instance of a class outside the User hierarchy
    Person("User", "fay", Null, Street),
    Street }

\* the objects the callers put into arrays
ArraySources == { Person("User", "bob", Null, Ann), Street }

\* the MapActionOptions the callers pass
Options ==
  { NoOption,
    [beforeMap |-> Hook("callBefore"), afterMap |-> Hook("callAfter")],
    [beforeMap |-> Hook("callBefore"), afterMap |-> Undefined],
    [beforeMap |-> Undefined, afterMap |-> Hook("callAfter")] }

\* the arrays the callers map
RECURSIVE ArraysUpTo(_)
ArraysUpTo(n) ==
  IF n = 0 THEN {<<>>}
  ELSE ArraysUpTo(n - 1)
         \cup {Append(a, s) : a \in {b \in ArraysUpTo(n - 1) : Len(b) = n - 1}, s \in ArraySources}

InitMap ==
  /\ \E r \in Scenarios : _mappings = r.maps /\ _classNameMap = r.names
  /\ outcome = Result("constructor", <<>>, NoError, Undefined)
  /\ trace = <<>>
  /\ queue = <<>>
  /\ created = {}

\* the call has returned or thrown in the evaluation state st
MapDone(op, args, st) ==
  /\ _mappings' = st.maps
  /\ _classNameMap' = st.names
  /\ trace' = st.trace
  /\ outcome' = Result(op, args, st.err, st.ret)
  /\ UNCHANGED <<queue, created>>

MapOne(sourceObj, key, option) ==
  MapDone("map", [source |-> sourceObj, key |-> key, option |-> option],
          _map(NewEval(_mappings, _classNameMap, <<>>, 1), sourceObj, key, option, FALSE))

MapMany(sourceArray, key, option) ==
  MapDone("mapArray", [source |-> Arr(sourceArray), key |-> key, option |-> option],
          _mapArray(NewEval(_mappings, _classNameMap, <<>>, 1), sourceArray, key, option))

NextMap ==
  \/ \E sourceObj \in Sources, i \in 1..Len(_mappings), option \in Options :
       MapOne(sourceObj, _mappings[i].key, option)
  \/ \E sourceArray \in ArraysUpTo(MaxElems), i \in 1..Len(_mappings), option \in Options :
       MapMany(sourceArray, _mappings[i].key, option)

SpecMap == InitMap /\ [][NextMap]_vars

----------------------------------------------------------------------------
(* Claims about mapping one object and an array, checked under SpecMap *)

BeforeHooks == {"beforeMap", "beforeMapAction"}
AfterHooks == {"afterMap", "afterMapAction"}

\* the stage of a _map execution an event belongs to
Rank ==
  [ev \in {"instantiate", "property", "_assertMappingErrors", "return"}
            \cup BeforeHooks \cup AfterHooks |->
     CASE ev = "instantiate" -> 0
       [] ev \in BeforeHooks -> 1
       [] ev = "property" -> 2
       [] ev = "_assertMappingErrors" -> 3
       [] ev \in AfterHooks -> 4
       [] OTHER -> 5]

\* the frames (destination instances) of the executions in the trace
Frames == 1..Instances(trace)

\* the stage events of the _map execution that made instance f
StepsOf(f) == SelectSeq(trace, LAMBDA e : e.frame = f /\ e.ev \in DOMAIN Rank)

EventsOf(f, evs) == SelectSeq(trace, LAMBDA e : e.frame = f /\ e.ev \in evs)

\* the mapping a frame runs
PropertiesOf(f) == AtKey(_mappings, StepsOf(f)[1].arg.mapping).properties

Threw == \E i \in 1..Len(trace) : trace[i].ev = "throw"

\* nothing happens after an exception is thrown: it is the last event
ThrowIsLast == \A i \in 1..Len(trace) : trace[i].ev = "throw" => i = Len(trace)

StepsInOrder(steps, dispatched, properties) ==
  /\ steps[1].ev = "instantiate"
  /\ \A i \in 1..(Len(steps) - 1) :
       /\ Rank[steps[i].ev] <= Rank[steps[i + 1].ev]
       /\ Rank[steps[i].ev] = Rank[steps[i + 1].ev] => steps[i].ev = "property"
  /\ Len(dispatched) <= Len(properties)
  /\ \A i \in 1..Len(dispatched) : dispatched[i].path = properties[i].destinationMemberPath
  /\ (\E i \in 1..Len(steps) : Rank[steps[i].ev] >= 3)
       => /\ Len(dispatched) = Len(properties)
          /\ \E i \in 1..Len(steps) : steps[i].ev = "_assertMappingErrors"

FrameInOrder(f) == StepsInOrder(StepsOf(f), EventsOf(f, {"property"}), PropertiesOf(f))

\* C4: in every mapOne execution (the outermost and the nested ones) the
\* destination is instantiated first, then at most one before-hook runs, then
\* the properties are dispatched one by one in the insertion order of
\* mapping.properties, then the coverage check runs once after the last
\* property, then at most one after-hook, then the destination is returned;
\* an after-hook is preceded by the coverage check and runs only in an
\* execution that returns, and after a failed coverage check or property
\* rule nothing more runs: no after-hook, no return, and the call has failed.
C4_MapOneEventOrder ==
  outcome.op = "map" =>
    /\ \A f \in Frames : FrameInOrder(f)
    /\ \A f \in Frames : EventsOf(f, AfterHooks) # <<>> => Len(EventsOf(f, {"return"})) = 1
    /\ ThrowIsLast
    /\ Threw <=> outcome.status # NoError
    /\ outcome.status = NoError =>
         /\ trace[Len(trace)].ev = "return" /\ trace[Len(trace)].frame = 1
         /\ outcome.value.id = 1
         /\ \A f \in Frames : Len(EventsOf(f, {"return"})) = 1

\* a map of three configured properties with a nested map, both hooks run
C4_Witness ==
  /\ outcome.op = "map" /\ outcome.status = NoError
  /\ Len(EventsOf(1, {"property"})) = 3
  /\ Len(EventsOf(1, BeforeHooks)) = 1 /\ Len(EventsOf(1, AfterHooks)) = 1
  /\ Instances(trace) >= 3

\* the hook a stage of frame f must call: the per-call one when given,
\* else the configured one, else none
ExpectedHook(perCall, perCallEvent, configured, configuredEvent) ==
  IF perCall # Undefined THEN <<[ev |-> perCallEvent, arg |-> perCall]>>
  ELSE IF configured # Undefined THEN <<[ev |-> configuredEvent, arg |-> configured]>>
  ELSE <<>>

\* the hooks called at a stage of frame f
CalledHooks(f, evs) ==
  [i \in 1..Len(EventsOf(f, evs)) |->
     [ev |-> EventsOf(f, evs)[i].ev, arg |-> EventsOf(f, evs)[i].arg]]

\* the options frame f was called with: the caller's for the outermost
\* execution, the default ones for a nested one
OptionOf(f) == IF f = 1 THEN outcome.args.option ELSE NoOption

MappingOf(f) == AtKey(_mappings, StepsOf(f)[1].arg.mapping)

\* C5: in every mapOne execution the before-hook called is the per-call
\* hook when one is given, else the configured beforeMapAction when the
\* mapping has one, else none; the same holds for the after-hook of an
\* execution that reaches it; so at most one before-hook and at most one
\* after-hook is called per execution.
C5_PerCallHookHasPriority ==
  outcome.op = "map" =>
    \A f \in Frames :
      /\ CalledHooks(f, BeforeHooks)
           = ExpectedHook(OptionOf(f).beforeMap, "beforeMap",
                          MappingOf(f).beforeMapAction, "beforeMapAction")
      /\ CalledHooks(f, AfterHooks)
           = IF Len(EventsOf(f, {"return"})) = 1
               THEN ExpectedHook(OptionOf(f).afterMap, "afterMap",
                                 MappingOf(f).afterMapAction, "afterMapAction")
               ELSE <<>>

\* per-call hooks and configured hooks both exist, the map succeeds
C5_Witness ==
  /\ outcome.op = "map" /\ outcome.status = NoError
  /\ outcome.args.option.beforeMap # Undefined /\ outcome.args.option.afterMap # Undefined
  /\ MappingOf(1).beforeMapAction # Undefined /\ MappingOf(1).afterMapAction # Undefined
  /\ CalledHooks(1, BeforeHooks) = <<[ev |-> "beforeMap", arg |-> Hook("callBefore")]>>
  /\ CalledHooks(1, AfterHooks) = <<[ev |-> "afterMap", arg |-> Hook("callAfter")]>>

\* the events of a kind, anywhere in the trace
EventsNamed(evs) == SelectSeq(trace, LAMBDA e : e.ev \in evs)

\* the frames that map an element of the array
ElementFrames == SelectSeq(trace, LAMBDA e : e.ev = "instantiate" /\ e.elem)

BatchHook(fn, source, destination) ==
  [k |-> "hook", fn |-> fn, source |-> source, destination |-> destination]

\* C6: in mapMany the batch before-hook, when given, is called exactly once,
\* before anything else, with the whole source array and the destination
\* array (still empty); the batch after-hook, when given and every element
\* mapped, is called exactly once, after everything else, with the whole
\* source array and the array of the n mapped elements that is returned; no
\* hook of any kind is called in the execution that maps an element.
C6_BatchHooksOncePerArray ==
  outcome.op = "mapArray" =>
    /\ Len(EventsNamed({"arrayBeforeMap"}))
         = IF outcome.args.option.beforeMap # Undefined THEN 1 ELSE 0
    /\ outcome.args.option.beforeMap # Undefined =>
         /\ trace[1].ev = "arrayBeforeMap"
         /\ trace[1].arg = BatchHook(outcome.args.option.beforeMap,
                                     outcome.args.source, Arr(<<>>))
    /\ Len(EventsNamed({"arrayAfterMap"}))
         = IF outcome.args.option.afterMap # Undefined /\ outcome.status = NoError
             THEN 1 ELSE 0
    /\ outcome.args.option.afterMap # Undefined /\ outcome.status = NoError =>
         /\ trace[Len(trace)].ev = "arrayAfterMap"
         /\ trace[Len(trace)].arg = BatchHook(outcome.args.option.afterMap,
                                              outcome.args.source, outcome.value)
    /\ outcome.status = NoError =>
         /\ Len(outcome.value.elems) = Len(outcome.args.source.elems)
         /\ Len(ElementFrames) = Len(outcome.args.source.elems)
         /\ \A i \in 1..Len(ElementFrames) : outcome.value.elems[i].id = ElementFrames[i].frame
    /\ \A i \in 1..Len(trace) :
         trace[i].elem => trace[i].ev \notin BeforeHooks \cup AfterHooks

\* two elements mapped by a mapping with configured hooks, batch hooks given
C6_Witness ==
  /\ outcome.op = "mapArray" /\ outcome.status = NoError
  /\ Len(outcome.args.source.elems) = 2
  /\ outcome.args.option.beforeMap # Undefined /\ outcome.args.option.afterMap # Undefined
  /\ AtKey(_mappings, outcome.args.key).beforeMapAction # Undefined
  /\ AtKey(_mappings, outcome.args.key).afterMapAction # Undefined
  /\ Len(EventsNamed({"arrayBeforeMap"})) = 1 /\ Len(EventsNamed({"arrayAfterMap"})) = 1

\* a mapping with this source type is registered
RegisteredAsSource(type) ==
  \E i \in 1..Len(_mappings) : _mappings[i].mapping.source = type

\* neither the type, nor a cached parent of it, nor a type of its name is
\* the source of a registered mapping
Unresolvable(type) ==
  /\ ~RegisteredAsSource(type)
  /\ _getProto(type) \notin DOMAIN _classNameMap
  /\ \A i \in 1..Len(_mappings) : _mappings[i].mapping.sourceKey # TypeName[type]

\* the call fails at event i: no destination, nothing but the throw follows
FailsAt(i) ==
  /\ outcome.status = MappingNotFoundError
  /\ outcome.value = Undefined
  /\ \A j \in (i + 1)..Len(trace) : trace[j].ev = "throw"

----------------------------------------------------------------------------
(* The asynchronous entry points.  Promise.resolve().then(f) queues f as a  *)
(* microtask; microtasks run one at a time, first queued first, each to     *)
(* its end.  queue holds the promises returned so far, oldest first.        *)

\* the function queued by a call
Closure(fn, source, key, option, isArrayMap) ==
  [fn |-> fn, source |-> source, key |-> key, option |-> option, isArrayMap |-> isArrayMap]

\* a closure that forgets the caller's options
_mapAsync_dropsOption(sourceObj, key, option, isArrayMap) ==
  Closure("_map", sourceObj, key, NoOption, isArrayMap)

\* lines 94-106: () => this._map(sourceObj, mapping, option, isArrayMap)
_mapAsync(sourceObj, key, option, isArrayMap) ==
  Closure("_map", sourceObj, key, option, isArrayMap)

\* lines 51-65: () => this._mapArray(sourceArray, mapping, option)
_mapArrayAsync(sourceArray, key, option) ==
  Closure("_mapArray", Arr(sourceArray), key, option, FALSE)

\* the queued function runs
RunClosure(st, job) ==
  IF job.fn = "_map"
    THEN _map(st, job.source, job.key, job.option, job.isArrayMap)
    ELSE _mapArray(st, job.source.elems, job.key, job.option)

\* the promise of a call: what the caller passed, the function queued, and
\* the settlement
Promise(args, job) ==
  [args |-> args, job |-> job, state |-> "pending", value |-> Undefined, err |-> NoError]

\* the promise resolves with what the function returns, rejects with what it throws
Settled(promise, st) ==
  [promise EXCEPT !.state = IF st.err = NoError THEN "fulfilled" ELSE "rejected",
                  !.value = st.ret,
                  !.err = st.err]

AsyncScenarios ==
  { Created(UserOnly(UserRules, Hook("userBefore"), Hook("userAfter")),
            "Addr", "AddrVm", AddrRules, Undefined, Undefined),
    UserOnly(UserRules, Undefined, Hook("userAfter")),
    UserOnly(UserRulesWithoutBoss, Hook("userBefore"), Hook("userAfter")) }

AsyncSources == { Person("User", "bob", Null, Ann), Person("User", "fay", Null, Street) }

AsyncArrays == { <<Ann>>, <<Ann, Person("User", "fay", Null, Street)>> }

AsyncOptions ==
  { NoOption, [beforeMap |-> Hook("callBefore"), afterMap |-> Hook("callAfter")] }

InitAsync ==
  /\ \E r \in AsyncScenarios : _mappings = r.maps /\ _classNameMap = r.names
  /\ outcome = Result("constructor", <<>>, NoError, Undefined)
  /\ trace = <<>>
  /\ queue = <<>>
  /\ created = {}

\* the call returns its promise; the function is queued
Queued(op, args, job) ==
  /\ Len(queue) < MaxCalls
  /\ queue' = Append(queue, Promise(args, job))
  /\ outcome' = Result(op, <<>>, NoError, Num(Len(queue) + 1))
  /\ UNCHANGED <<_mappings, _classNameMap, trace, created>>

MapAsync(sourceObj, key, option) ==
  Queued("mapAsync", Closure("_map", sourceObj, key, option, FALSE),
         _mapAsync(sourceObj, key, option, FALSE))

MapArrayAsync(sourceArray, key, option) ==
  Queued("mapArrayAsync", Closure("_mapArray", Arr(sourceArray), key, option, FALSE),
         _mapArrayAsync(sourceArray, key, option))

\* the oldest pending promise
FirstPending == CHOOSE i \in 1..Len(queue) :
                  queue[i].state = "pending" /\ \A j \in 1..(i - 1) : queue[j].state # "pending"

MicrotaskDone(i, st) ==
  /\ _mappings' = st.maps
  /\ _classNameMap' = st.names
  /\ trace' = st.trace
  /\ queue' = [queue EXCEPT ![i] = Settled(@, st)]
  /\ outcome' = Result("microtask", <<>>, st.err, Num(i))
  /\ UNCHANGED created

\* the next turn: the oldest queued function runs to its end
RunMicrotask ==
  /\ \E i \in 1..Len(queue) : queue[i].state = "pending"
  /\ MicrotaskDone(FirstPending,
       RunClosure(NewEval(_mappings, _classNameMap, trace, FirstPending),
                  queue[FirstPending].job))

NextAsync ==
  \/ \E sourceObj \in AsyncSources, option \in AsyncOptions :
       MapAsync(sourceObj, _mappings[1].key, option)
  \/ \E sourceArray \in AsyncArrays, option \in AsyncOptions :
       MapArrayAsync(sourceArray, _mappings[1].key, option)
  \/ RunMicrotask

SpecAsync == InitAsync /\ [][NextAsync]_vars

----------------------------------------------------------------------------
(* Claims about the asynchronous entry points, checked under SpecAsync *)

\* the call that instantiated instance id
Instantiated(id, call) ==
  \E j \in 1..Len(trace) :
    trace[j].ev = "instantiate" /\ trace[j].arg.id = id /\ trace[j].call = call

\* C7: the events of each asynchronous call are contiguous in the trace (the
\* calls run one after the other, in the order they were made), every
\* instantiate yields an instance no earlier instantiate yielded, and every
\* write goes to an instance that the writing call instantiated itself and
\* that no other call instantiated or wrote.
C7_AsyncCallsDoNotInterleave ==
  /\ \A i \in 1..(Len(trace) - 1) : trace[i].call <= trace[i + 1].call
  /\ \A i, j \in 1..Len(trace) :
       trace[i].ev = "instantiate" /\ trace[j].ev = "instantiate" /\ i # j
         => trace[i].arg.id # trace[j].arg.id
  /\ \A i \in 1..Len(trace) :
       trace[i].ev = "set"
         => /\ Instantiated(trace[i].frame, trace[i].call)
            /\ \A j \in 1..Len(trace) :
                 trace[j].ev = "set" /\ trace[j].frame = trace[i].frame
                   => trace[j].call = trace[i].call

WroteIn(call) == \E i \in 1..Len(trace) : trace[i].ev = "set" /\ trace[i].call = call

\* two calls against the same mapping were pending together and both ran
C7_Witness ==
  /\ Len(queue) >= 2
  /\ queue[1].state = "fulfilled" /\ queue[2].state = "fulfilled"
  /\ queue[1].args.key = queue[2].args.key
  /\ WroteIn(1) /\ WroteIn(2)
  /\ \E i \in 1..Len(trace) : trace[i].call = 1 /\ trace[i].depth = 2

\* the synchronous map on the arguments of promise i, in the current state
SyncNow(i, args) ==
  IF args.fn = "_map"
    THEN _map(NewEval(_mappings, _classNameMap, trace, i),
              args.source, args.key, args.option, args.isArrayMap)
    ELSE _mapArray(NewEval(_mappings, _classNameMap, trace, i),
                   args.source.elems, args.key, args.option)

\* C8: the step in which an asynchronous call is made leaves the registry,
\* the identity cache and the trace as they are (no hook, no rule, no
\* lookup) and returns a pending promise; the step in which promise i
\* settles fulfils it with the destination the synchronous map on the same
\* arguments returns in that state, or rejects it with the error that map
\* throws, with the same events in the same order and the same effect on
\* the registry and the identity cache.
C8_AsyncSettlesLikeSync ==
  [][ /\ Len(queue') > Len(queue) =>
           /\ UNCHANGED <<_mappings, _classNameMap, trace>>
           /\ queue'[Len(queue')].state = "pending"
           /\ SubSeq(queue', 1, Len(queue)) = queue
      /\ \A i \in 1..Len(queue) :
           queue[i].state = "pending" /\ queue'[i].state # "pending" =>
             /\ queue'[i].err = SyncNow(i, queue[i].args).err
             /\ queue'[i].value = SyncNow(i, queue[i].args).ret
             /\ queue'[i].state = IF SyncNow(i, queue[i].args).err = NoError
                                    THEN "fulfilled" ELSE "rejected"
             /\ trace' = SyncNow(i, queue[i].args).trace
             /\ _mappings' = SyncNow(i, queue[i].args).maps
             /\ _classNameMap' = SyncNow(i, queue[i].args).names ]_vars

\* a single call with hooks has been fulfilled and an array call rejected
C8_Witness ==
  \E i, j \in 1..Len(queue) :
    /\ queue[i].state = "fulfilled" /\ queue[i].args.fn = "_map"
    /\ queue[i].args.option # NoOption
    /\ queue[j].state = "rejected" /\ queue[j].args.fn = "_mapArray"
    /\ queue[j].err = MappingNotFoundError

----------------------------------------------------------------------------
(* Claims about what a map call leaves behind, checked under SpecMap *)

\* the rule sets of the registered mappings, by position in the registry
RuleSets(maps) == [i \in 1..Len(maps) |-> maps[i].mapping.properties]

\* C11 as stated: a map call (mapOne or mapMany, nested executions included)
\* leaves the properties of every registered mapping as they were: the same
\* destination paths in the same order with the same rules, also when a
\* MapFrom rule with a plain selector is executed.
C11_MapLeavesMappingUnchanged ==
  [][RuleSets(_mappings') = RuleSets(_mappings)]_vars

----------------------------------------------------------------------------
(* Mapping one object under each rule variant *)

\* preCondition(predicate, defaultValue) in front of a rule
WithPreCondition(transformation, preCondition) ==
  [transformation EXCEPT !.transformationType.preCondition = preCondition]

ConvertUsingRule(converter, value) ==
  [Transformation("ConvertUsing", Undefined)
     EXCEPT !.convertUsing = [converter |-> converter, value |-> value]]

NullSubstitutionRule(value) ==
  [Transformation("NullSubstituion", Undefined) EXCEPT !.nullSubstitution = value]

\* the default values a predicate is configured with (Undefined: none given)
Defaults == { Undefined, Num(0), Bool(FALSE), Str(""), Str("n/a") }

\* the rules tried on the path name; every predicate reads the member boss
GuardedRules ==
  { WithPreCondition(IgnoreRule, PreCondition(Selector("boss"), d)) : d \in Defaults }
    \cup { MapFromRule(Selector("name"), PreCondition(Selector("boss"), d)) : d \in Defaults }
    \cup { ConditionRule(Selector("boss"), d) : d \in Defaults }
    \cup { IgnoreRule,
           WithPreCondition(ConvertUsingRule(Hook("upper"), Selector("name")),
                            PreCondition(Selector("boss"), Str("n/a"))),
           MapFromRule(ResolverOf("name"), PreCondition(Selector("boss"), Str("n/a"))) }

\* the rules tried on the path addr, whose source member may hold an array
ArrayRules == { MapInitialize("addr"), MapWithRule("AddrVm", Selector("addr")) }

\* the rules tried on the path boss
BossRules ==
  { NullSubstitutionRule(Str("nobody")),
    WithPreCondition(MapWithRule("UserVm", Selector("boss")),
                     PreCondition(Selector("boss"), Undefined)) }

\* createMap(User, UserVm) with one rule per path, and createMap(Addr, AddrVm)
\* or not
RuleScenario(name, addr, boss, withAddr) ==
  IF withAddr
    THEN Created(UserOnly(<< Property("name", "undefined", name),
                             Property("addr", "undefined", addr),
                             Property("boss", "undefined", boss) >>, Undefined, Undefined),
                 "Addr", "AddrVm", AddrRules, Undefined, Undefined)
    ELSE UserOnly(<< Property("name", "undefined", name),
                     Property("addr", "undefined", addr),
                     Property("boss", "undefined", boss) >>, Undefined, Undefined)

\* what the member addr holds in the objects mapped
AddrValues ==
  { Street, Arr(<<>>), Arr(<<Null, Street>>), Arr(<<Undefined>>), Arr(<<Street, Street>>),
    Arr(<<Num(1), Num(2)>>) }

RuleSources ==
  { Person("User", "gus", a, b) : a \in AddrValues, b \in {Undefined, Ann} }

InitRules ==
  /\ \E name \in GuardedRules, addr \in ArrayRules, boss \in BossRules, withAddr \in BOOLEAN :
       /\ _mappings = RuleScenario(name, addr, boss, withAddr).maps
       /\ _classNameMap = RuleScenario(name, addr, boss, withAddr).names
  /\ outcome = Result("constructor", <<>>, NoError, Undefined)
  /\ trace = <<>>
  /\ queue = <<>>
  /\ created = {}

NextRules == \E sourceObj \in RuleSources : MapOne(sourceObj, _mappings[1].key, NoOption)

SpecRules == InitRules /\ [][NextRules]_vars

----------------------------------------------------------------------------
(* Claims about the rule variants, checked under SpecRules *)

\* the properties of the mapping the last call ran
RunProps == AtKey(_mappings, outcome.args.key).properties

RuleType(prop) == prop.transformation.transformationType.type

PreConditionOf(prop) == prop.transformation.transformationType.preCondition

\* the rule has a preCondition and its predicate is false on the source
Skipped(prop, sourceObj) ==
  /\ PreConditionOf(prop) # Undefined
  /\ ~Truthy(Select(PreConditionOf(prop).predicate, sourceObj))

Succeeded == outcome.op = "map" /\ outcome.status = NoError

\* C12 as stated: after a successful mapOne every property whose rule is of
\* the Ignore variant holds null in the destination, whatever the source and
\* whatever preCondition the rule carries.
C12_IgnoreAlwaysNull ==
  Succeeded =>
    \A i \in 1..Len(RunProps) :
      RuleType(RunProps[i]) = "Ignore"
        => GetProp(outcome.value, RunProps[i].destinationMemberPath) = Null

\* C12 amended: after a successful mapOne a property whose rule is of the
\* Ignore variant holds null in the destination, except when the rule carries
\* a preCondition that is false on the source and has a truthy default value:
\* then it holds that default value.
C12_IgnoreNullUnlessSkipped ==
  Succeeded =>
    \A i \in 1..Len(RunProps) :
      RuleType(RunProps[i]) = "Ignore"
        => GetProp(outcome.value, RunProps[i].destinationMemberPath)
             = IF Skipped(RunProps[i], outcome.args.source)
                    /\ Truthy(PreConditionOf(RunProps[i]).defaultValue)
                 THEN PreConditionOf(RunProps[i]).defaultValue
                 ELSE Null

\* a successful call ran an Ignore rule whose preCondition was false and had
\* the default value 'n/a', and another call one whose preCondition held
C12_Witness ==
  /\ Succeeded
  /\ \E i \in 1..Len(RunProps) :
       /\ RuleType(RunProps[i]) = "Ignore"
       /\ PreConditionOf(RunProps[i]) # Undefined
       /\ PreConditionOf(RunProps[i]).defaultValue = Str("n/a")
       /\ Skipped(RunProps[i], outcome.args.source)
       /\ GetProp(outcome.value, RunProps[i].destinationMemberPath) = Str("n/a")

\* the value a configured default stands for: itself when one is configured,
\* null when none is
DefaultOrNull(defaultValue) == IF defaultValue = Undefined THEN Null ELSE defaultValue

\* a Condition rule that is reached and whose predicate is false on the source
ConditionFailed(prop, sourceObj) ==
  /\ RuleType(prop) = "Condition"
  /\ ~Skipped(prop, sourceObj)
  /\ ~Truthy(Select(prop.transformation.condition.predicate, sourceObj))

\* C13 as stated: after a successful mapOne a property whose preCondition is
\* false on the source holds the preCondition's configured default value, and
\* a property whose Condition predicate is false holds the Condition's
\* configured default value, whatever that value is (0, false and '' included);
\* it holds null only when no default value is configured.
C13_FalsePredicateWritesDefault ==
  Succeeded =>
    \A i \in 1..Len(RunProps) :
      /\ Skipped(RunProps[i], outcome.args.source)
           => GetProp(outcome.value, RunProps[i].destinationMemberPath)
                = DefaultOrNull(PreConditionOf(RunProps[i]).defaultValue)
      /\ ConditionFailed(RunProps[i], outcome.args.source)
           => GetProp(outcome.value, RunProps[i].destinationMemberPath)
                = DefaultOrNull(RunProps[i].transformation.condition.defaultValue)

\* the source value a MapWith rule or the default rule reads
NestedSource(prop, sourceObj) ==
  IF RuleType(prop) = "MapWith"
    THEN Select(prop.transformation.mapWith.fromValue, sourceObj)
    ELSE Select(prop.transformation.mapFrom, sourceObj)

\* an array whose first element is absent or null; the empty array is one
FirstIsEmpty(v) == v.k = "array" /\ FirstOf(v.elems).k \in {"undefined", "null"}

\* the rule of prop is reached and reads such an array
ReadsEmptyFirst(prop, sourceObj, types) ==
  /\ RuleType(prop) \in types
  /\ ~Skipped(prop, sourceObj)
  /\ FirstIsEmpty(NestedSource(prop, sourceObj))

\* the outermost execution wrote value at the destination path
WroteAt(path, value) ==
  \E i \in 1..Len(trace) :
    /\ trace[i].ev = "set" /\ trace[i].frame = 1
    /\ trace[i].path = path /\ trace[i].arg = value

\* C14 as stated: when a MapWith rule or the default rule reads a source array
\* whose first element is absent or null (the empty array included), the rule
\* does not fail and writes the empty array to the destination path, whether
\* or not a mapping for the element type is registered.
C14_EmptyFirstElementYieldsEmptyArray ==
  outcome.op = "map" =>
    \A i \in 1..Len(RunProps) :
      ReadsEmptyFirst(RunProps[i], outcome.args.source, {"MapWith", "MapInitialize"})
        => WroteAt(RunProps[i].destinationMemberPath, Arr(<<>>))

\* the events of frame f about the destination path, of the kinds evs
PathEvents(f, path, evs) ==
  SelectSeq(trace, LAMBDA e : e.frame = f /\ e.path = path /\ e.ev \in evs)

\* event i is the dispatch of a property whose preCondition was found false
SkippedAt(i) == trace[i].ev = "property" /\ trace[i].arg = Bool(FALSE)

\* how many properties frame f has dispatched up to event i
Dispatched(i, f) ==
  Cardinality({j \in 1..i : trace[j].frame = f /\ trace[j].ev = "property"})

\* what follows the dispatch at event i: one write to the path, then the next
\* property of the same execution or, after the last one, its coverage check
SkipsRule(i, f, path) ==
  /\ i + 2 <= Len(trace)
  /\ trace[i + 1].ev = "set" /\ trace[i + 1].frame = f /\ trace[i + 1].path = path
  /\ trace[i + 2].frame = f
  /\ IF Dispatched(i, f) < Len(PropertiesOf(f))
       THEN /\ trace[i + 2].ev = "property"
            /\ trace[i + 2].path
                 = PropertiesOf(f)[Dispatched(i, f) + 1].destinationMemberPath
       ELSE trace[i + 2].ev = "_assertMappingErrors"
  /\ Len(PathEvents(f, path, {"set"})) = 1
  /\ PathEvents(f, path, {"call", "lookup", "warn"}) = <<>>
  /\ Len(EventsOf(f, {"_assertMappingErrors"})) = 1 => Len(EventsOf(f, {"throw"})) = 0

\* C19: in every execution of a map call a property is dispatched as skipped
\* exactly when its rule has a preCondition that is false on the source, and a
\* skipped rule is skipped entirely: right after the preCondition the
\* destination path is written, exactly once in the execution, none of the
\* rule's selector, converter, resolver or nested mapping lookup is invoked,
\* the iteration goes on with the next property (or, after the last one, with
\* the coverage check), and the coverage check does not fail.
C19_FalsePreConditionSkipsRule ==
  outcome.op = "map" =>
    /\ \A i \in 1..Len(trace) :
         SkippedAt(i) => SkipsRule(i, trace[i].frame, trace[i].path)
    /\ \A i \in 1..Len(trace), j \in 1..Len(RunProps) :
         (trace[i].ev = "property" /\ trace[i].frame = 1
            /\ trace[i].path = RunProps[j].destinationMemberPath)
           => trace[i].arg = Bool(~Skipped(RunProps[j], outcome.args.source))

\* a successful call skipped a ConvertUsing rule on the first path and the
\* MapWith rule on the last one
C19_Witness ==
  /\ Succeeded
  /\ \E i, j \in 1..Len(trace) :
       /\ SkippedAt(i) /\ trace[i].frame = 1 /\ trace[i].path = "name"
       /\ SkippedAt(j) /\ trace[j].frame = 1 /\ trace[j].path = "boss"
  /\ RuleType(RunProps[1]) = "ConvertUsing"
  /\ RuleType(RunProps[3]) = "MapWith"

----------------------------------------------------------------------------
(* The registry with base pairs, reverse mappings and every lookup *)

\* how many mappings the registry holds at most in these runs
MaxPairs == 3

\* the pairs createMap is called with
CreatedPairs == { <<"User", "UserVm">>, <<"Admin", "UserVm">>, <<"User3", "User">> }

\* the types the lookups are called with
LookupTypes == {"User", "User3", "UserVm", "Admin"}

\* the pairs the lookups are called with
LookupPairs == { <<"User", "UserVm">>, <<"Admin", "UserVm">>, <<"UserVm", "User">> }

\* the registry after a registration returned or threw r
PairRegistered(op, source, destination, r) ==
  /\ Len(r.maps) <= MaxPairs
  /\ _mappings' = r.maps
  /\ _classNameMap' = r.names
  /\ outcome' = Result(op, [source |-> source, destination |-> destination], r.err, r.value)
  /\ trace' = <<>>
  /\ UNCHANGED <<queue, created>>

CreateMap(source, destination, options) ==
  PairRegistered("createMapping", source, destination,
    _createMappingObject(_mappings, _classNameMap, source, destination, options))

CreateReverse(i) ==
  PairRegistered("createReverseMapping",
    _mappings[i].mapping.source, _mappings[i].mapping.destination,
    _createReversedMappingObject(_mappings, _classNameMap, _mappings[i].mapping))

\* the configuration layer's includeBase: the mapping points to the pair of a
\* registered base mapping and inherits the rules it lacks
Based(mapping, base) ==
  [mapping EXCEPT !.baseSource = base.source,
                  !.baseDestination = base.destination,
                  !.properties = _inheritBaseMapping(@, base.properties)]

IncludeBase(i, j) ==
  /\ Extends[_mappings[i].mapping.source] = _mappings[j].mapping.source
  /\ _mappings[i].mapping.baseSource = "undefined"
  /\ _mappings' = [_mappings EXCEPT ![i].mapping = Based(@, _mappings[j].mapping)]
  /\ outcome' = Result("includeBase", <<>>, NoError, Undefined)
  /\ trace' = <<>>
  /\ UNCHANGED <<_classNameMap, queue, created>>

\* a lookup returned or threw r
LookupDone(op, args, r) ==
  /\ _classNameMap' = r.names
  /\ outcome' = Result(op, args, r.err, r.value)
  /\ trace' = <<>>
  /\ UNCHANGED <<_mappings, queue, created>>

ResolvePair(source, destination) ==
  LookupDone("resolve", [source |-> source, destination |-> destination],
             _getMapping(_mappings, _classNameMap, source, destination))

ResolveForDestination(destination, sourceObj, isInherit) ==
  LookupDone("resolveForDestination",
             [source |-> sourceObj, destination |-> destination, isInherit |-> isInherit],
             _getMappingForDestination(_mappings, _classNameMap, destination, sourceObj,
                                       isInherit))

\* the lookup for an instance of valType
ResolveByValue(valType) ==
  LookupDone("resolveByValue", [source |-> valType],
             _getMappingForNestedKey(_mappings, _classNameMap, valType))

\* the rules configured in these runs, in this order: each path by the
\* default rule
DefaultRules ==
  << Property("name", "undefined", MapInitialize("name")),
     Property("addr", "undefined", MapInitialize("addr")),
     Property("boss", "undefined", MapInitialize("boss")) >>

\* the next forMember call on mapping i
ForNextMember(i) ==
  /\ _mappings[i].mapping.source = "User" /\ _mappings[i].mapping.destination = "UserVm"
  /\ Len(_mappings[i].mapping.properties) < Len(DefaultRules)
  /\ ForMember(i, DefaultRules[Len(_mappings[i].mapping.properties) + 1])

\* the objects mapped in these runs: a user whose boss is of each type
BossOf(type) == Person("User", "kim", Null, Person(type, "lee", Null, Null))

NextResolve ==
  \/ \E p \in CreatedPairs, o \in RegistryOptions : CreateMap(p[1], p[2], o)
  \/ \E i \in 1..Len(_mappings) : CreateReverse(i)
  \/ \E i \in 1..Len(_mappings), j \in 1..Len(_mappings) : IncludeBase(i, j)
  \/ \E p \in LookupPairs : ResolvePair(p[1], p[2])
  \/ \E p \in LookupPairs, isInherit \in BOOLEAN : ResolveForDestination(p[2], p[1], isInherit)
  \/ \E t \in LookupTypes : ResolveByValue(t)
  \/ \E i \in 1..Len(_mappings) : ForNextMember(i)
  \/ \E t \in {"User", "User3"}, i \in 1..Len(_mappings) :
       _mappings[i].mapping.source = "User" /\ MapOne(BossOf(t), _mappings[i].key, NoOption)
  \/ Reset

SpecResolve == Init /\ [][NextResolve]_vars

----------------------------------------------------------------------------
(* Claims about the lookups and the reverse mappings, checked under        *)
(* SpecResolve                                                             *)

IsPair(maps, source, destination) ==
  \E i \in 1..Len(maps) :
    maps[i].mapping.source = source /\ maps[i].mapping.destination = destination

\* the mapping registered for the pair, undefined when there is none
MappingOfPair(maps, source, destination) ==
  IF IsPair(maps, source, destination)
    THEN maps[CHOOSE i \in 1..Len(maps) :
                maps[i].mapping.source = source
                  /\ maps[i].mapping.destination = destination].mapping
    ELSE Undefined

\* the type whose identity a lookup without creation uses for type t: t itself
\* when it has an identity, else its parent when the parent has one
StandsFor(names, t) ==
  IF t \in DOMAIN names THEN t
  ELSE IF Extends[t] \in DOMAIN names THEN Extends[t]
  ELSE "none"

\* createReverseMapping fails with DuplicateMappingError or not at all
ReverseNeverMissesBase ==
  outcome.op = "createReverseMapping" => outcome.status \in {NoError, DuplicateMappingError}

\* what resolveForDestination answers when the pair it finds holds found
Answered(found) ==
  IF found # Undefined THEN outcome.status = NoError /\ outcome.value = found
  ELSE IF outcome.args.isInherit THEN outcome.status = NoError /\ outcome.value = Undefined
  ELSE outcome.status = MappingNotFoundError

\* C15 as stated: resolveForDestination with allowMissing never raises and
\* returns the mapping registered for the pair of the two types, undefined
\* when that pair is not registered; without allowMissing it fails with
\* MappingNotFoundError when that pair is not registered; createReverseMapping
\* of a mapping with a base pair never fails for a missing reverse base pair.
C15_ResolveForDestinationByPair ==
  /\ outcome.op = "resolveForDestination"
       => Answered(MappingOfPair(_mappings, outcome.args.source, outcome.args.destination))
  /\ ReverseNeverMissesBase

\* C15 amended: resolveForDestination with allowMissing never raises; it returns
\* the mapping registered for the pair, a type without a cached identity
\* standing for its parent type when the parent has one, and undefined when
\* no such mapping is registered; without allowMissing it fails with
\* MappingNotFoundError exactly when no such mapping is registered;
\* createReverseMapping of a mapping with a base pair never fails for a
\* missing reverse base pair.
C15_ResolveForDestinationNeverRaises ==
  /\ outcome.op = "resolveForDestination"
       => Answered(MappingOfPair(_mappings,
                                 StandsFor(_classNameMap, outcome.args.source),
                                 StandsFor(_classNameMap, outcome.args.destination)))
  /\ ReverseNeverMissesBase

\* the reverse of a mapping with a base pair was registered while the reverse
\* of the base pair was not
C15_Witness ==
  /\ outcome.op = "createReverseMapping" /\ outcome.status = NoError
  /\ outcome.value.baseSource # "undefined"
  /\ ~IsPair(_mappings, outcome.value.baseSource, outcome.value.baseDestination)
  /\ IsPair(_mappings, outcome.args.destination, outcome.args.source)

\* reversed is forward turned around
IsReverseOf(reversed, forward) ==
  /\ reversed.source = forward.destination
  /\ reversed.destination = forward.source
  /\ reversed.sourceMemberNamingConvention = forward.destinationMemberNamingConvention
  /\ reversed.destinationMemberNamingConvention = forward.sourceMemberNamingConvention
  /\ reversed.baseSource = forward.baseDestination
  /\ reversed.baseDestination = forward.baseSource

\* createReverseMapping of the mapping forward of (source, destination)
\* registered reversed
ReverseRegistered(source, destination, forward, reversed) ==
  /\ IsReverseOf(reversed, forward)
  /\ MappingOfPair(_mappings', destination, source) = reversed
  /\ _getMapping(_mappings', _classNameMap', destination, source).err = NoError
  /\ _getMapping(_mappings', _classNameMap', destination, source).value = reversed
  /\ _getMapping(_mappings', _classNameMap', source, destination).value = forward

\* C16: createReverseMapping of a forward mapping of (S,D) fails with
\* DuplicateMappingError and registers nothing when (D,S) is already
\* registered; a call that returns has registered a mapping that resolve(D,S)
\* returns afterwards, whose source is D and destination S, whose naming
\* conventions are the forward mapping's swapped, whose baseSource and
\* baseDestination are the forward baseDestination and baseSource, and
\* resolve(S,D) still returns the forward mapping.
C16_ReverseIsRegisteredSwapped ==
  [][outcome'.op = "createReverseMapping" =>
       IF IsPair(_mappings, outcome'.args.destination, outcome'.args.source)
         THEN outcome'.status = DuplicateMappingError /\ _mappings' = _mappings
         ELSE outcome'.status = NoError =>
                ReverseRegistered(outcome'.args.source, outcome'.args.destination,
                  MappingOfPair(_mappings, outcome'.args.source, outcome'.args.destination),
                  outcome'.value)]_vars

\* the reverse of a camelCase-to-PascalCase mapping with a base pair is
\* registered next to it
C16_Witness ==
  /\ outcome.op = "createReverseMapping" /\ outcome.status = NoError
  /\ outcome.value.sourceMemberNamingConvention = "PascalCase"
  /\ outcome.value.destinationMemberNamingConvention = "camelCase"
  /\ outcome.value.baseSource = "UserVm" /\ outcome.value.baseDestination = "User"
  /\ IsPair(_mappings, "Admin", "UserVm") /\ IsPair(_mappings, "UserVm", "Admin")

\* some registered mapping has the type as its source
IsSource(maps, type) == \E i \in 1..Len(maps) : maps[i].mapping.source = type

\* C17 as stated: resolveByValue of an instance returns a mapping whose source
\* is the instance's runtime type whenever some registered mapping has that
\* type as its source, whatever else is registered; it fails with
\* MappingNotFoundError only when no registered mapping has that type as its
\* source, and it never returns a mapping with another source.
C17_ResolveByValueFindsSourceType ==
  outcome.op = "resolveByValue" =>
    IF IsSource(_mappings, outcome.args.source)
      THEN outcome.status = NoError /\ outcome.value.source = outcome.args.source
      ELSE outcome.status = MappingNotFoundError

\* the type keeps the identity it has in the cache names: the entry is still
\* there unchanged and both kinds of lookup return it
KeepsIdentity(names, after, t) ==
  /\ t \in DOMAIN after
  /\ after[t] = names[t]
  /\ _getHash(after, t, TRUE).hash = names[t]
  /\ _getHash(after, t, FALSE).hash = names[t]
  /\ _getHash(after, t, TRUE).names = after

\* C18: every operation but reset (createMapping, createReverseMapping,
\* resolve, resolveForDestination, resolveByValue, map and the configuration
\* calls) leaves every entry of the type-identity cache in place and
\* unchanged, and a later identity lookup for a cached type returns the cached
\* value.
C18_IdentityCacheIsAppendOnly ==
  [][outcome'.op # "reset" =>
       \A t \in DOMAIN _classNameMap : KeepsIdentity(_classNameMap, _classNameMap', t)]_vars

\* a map call with a nested lookup has returned on a registry whose cache
\* holds the identities of four types
C18_Witness ==
  /\ outcome.op = "map" /\ outcome.status = NoError
  /\ Instances(trace) = 2
  /\ Cardinality(DOMAIN _classNameMap) = 4

\* the identity lookup without creation for type t on the cache names: the
\* cache is left as it is and the identity is the cached one, else the
\* parent's cached one, else the empty string
LooksUpWithoutCreating(names, t) ==
  /\ _getHash(names, t, FALSE).names = names
  /\ _getHash(names, t, FALSE).hash
       = IF StandsFor(names, t) = "none" THEN <<>> ELSE names[StandsFor(names, t)]

\* resolveForDestination(destination, source) leaves the cache alone; a source
\* without an identity of its own resolves to the mapping of its parent, and
\* one with the empty identity to none
ResolvedForDestination(source, destination) ==
  /\ _classNameMap' = _classNameMap
  /\ IF StandsFor(_classNameMap, source) = "none"
       THEN outcome'.value = Undefined
       ELSE outcome'.value
              = MappingOfPair(_mappings, StandsFor(_classNameMap, source),
                              StandsFor(_classNameMap, destination))

\* resolveByValue of an instance whose type has the empty identity matches no
\* registered pair: it fails and nothing was looked up any further
ResolvedByEmptyIdentity ==
  outcome'.status = MappingNotFoundError /\ _classNameMap' = _classNameMap

\* C20 as stated: an identity lookup without permission to create never adds
\* a cache entry and returns the type's cached identity, else the cached
\* identity of its parent, else the empty identity; resolveForDestination
\* therefore leaves the cache unchanged and resolves an unregistered subtype
\* to its parent's mapping for the destination; and the empty identity
\* matches no registered pair, in resolveForDestination and in the first
\* step of resolveByValue alike.
C20_LookupWithoutCreateMatchesNothingWhenEmpty ==
  [][/\ \A t \in LookupTypes : LooksUpWithoutCreating(_classNameMap, t)
     /\ outcome'.op = "resolveForDestination"
          => ResolvedForDestination(outcome'.args.source, outcome'.args.destination)
     /\ (outcome'.op = "resolveByValue"
           /\ StandsFor(_classNameMap, outcome'.args.source) = "none")
          => ResolvedByEmptyIdentity]_vars

====
